---------------------------- MODULE Spec2Model ----------------------------
(***************************************************************************)
(* Pre-action authorization examples (aporthq/aport-examples, python).     *)
(*                                                                         *)
(*   SpecAuth  the with_pre_action_authorization wrapper around            *)
(*             PreActionAuthorizer.verify, called by concurrent callers,   *)
(*             and the blocking AgentPassportClient.verify_policy          *)
(*   SpecMw    the Microsoft Agent Framework middlewares                   *)
(*   SpecMcp   the FastAPI endpoints with MCP allowlist validation         *)
(*                                                                         *)
(* Python's None is the string "None"; the empty string is "".  The remote *)
(* authority is outside the repository: what it answers is a free choice.  *)
(***************************************************************************)
EXTENDS Integers, Sequences, FiniteSets, TLC

None == "None"

\* Python truthiness of an optional string (None and "" are falsy).
Truthy(x) == x # None /\ x # ""

\* Python's `a or b` on optional strings.
Or(a, b) == IF Truthy(a) THEN a ELSE b

RECURSIVE SumOver(_, _)
SumOver(S, f) ==
    IF S = {} THEN 0
    ELSE LET x == CHOOSE y \in S : TRUE IN f[x] + SumOver(S \ {x}, f)

\* ------------------------------------------------------------------------
\* Bounds
\* ------------------------------------------------------------------------
NumCallers == 2

Callers == 1..NumCallers

\* ------------------------------------------------------------------------
\* Values exchanged with the remote authority
\* ------------------------------------------------------------------------
DecisionIds == {"dec_1", "dec_2"}

AgentId == "ap_a2d10232c6534523812423eec8a1425c"
RefundPolicy == "finance.payment.refund.v1"

\* idempotency_key_fn is optional; when given it may itself return None.
IdempotencyKeys == {None, "k1"}
Amounts == {5000, 10000}

\* The exceptions client.verify_policy can raise: the SDK's AportError and
\* anything else the transport lets through.
ClientErrorTypes == {"AportError", "TimeoutError"}

NoOutcome ==
    [kind |-> "none", type |-> None, decision_id |-> None, allow |-> FALSE]
DecisionOutcome(id, allow) ==
    [kind |-> "decision", type |-> "PolicyVerificationResponse",
     decision_id |-> id, allow |-> allow]
RaisedOutcome(t) ==
    [kind |-> "raise", type |-> t, decision_id |-> None, allow |-> FALSE]

\* AuthorizationError(decision): the exception carries the decision.
AuthorizationError(decision) ==
    [kind |-> "raise", type |-> "AuthorizationError",
     decision_id |-> decision.decision_id, allow |-> decision.allow]

\* What one call of client.verify_policy can come back with.
ClientOutcomes ==
    {DecisionOutcome(id, a) : id \in DecisionIds, a \in BOOLEAN}
        \cup {RaisedOutcome(t) : t \in ClientErrorTypes}

\* What the wrapped tool function can do once it runs: return, raise an
\* AuthorizationError of its own (a nested authorized tool), or fail.
FuncOutcomes ==
    {[kind |-> "return", type |-> None, decision_id |-> None, allow |-> FALSE]}
        \cup {AuthorizationError(DecisionOutcome(id, FALSE)) : id \in DecisionIds}
        \cup {RaisedOutcome("RuntimeError")}

\* ------------------------------------------------------------------------
\* openai-agents/pre_action_authorization.py
\* ------------------------------------------------------------------------

\* build_context of the refund example: the context sent for verification.
build_context(amount) == [amount |-> amount, currency |-> "USD"]

NoArgs == [amount |-> 0, idempotency_key |-> None]

\* The keyword arguments of the one client.verify_policy call in verify.
verify_policy_callNoKey(agent_id, policy_id, context, idempotency_key) ==
    [agent_id |-> agent_id, policy_id |-> policy_id, context |-> context,
     idempotency_key |-> None]
verify_policy_call(agent_id, policy_id, context, idempotency_key) ==
    [agent_id |-> agent_id, policy_id |-> policy_id, context |-> context,
     idempotency_key |-> idempotency_key]

\* PreActionAuthorizer.verify up to its await: the calls it makes on the
\* client, in order.  There is no cache and no reservation in front of it.
verify_clientCallsDeduped(agent_id, policy_id, context, idempotency_key, earlier) ==
    IF idempotency_key # None
       /\ verify_policy_call(agent_id, policy_id, context, idempotency_key) \in earlier
    THEN << >>
    ELSE << verify_policy_call(agent_id, policy_id, context, idempotency_key) >>
verify_clientCalls(agent_id, policy_id, context, idempotency_key, earlier) ==
    << verify_policy_call(agent_id, policy_id, context, idempotency_key) >>

\* PreActionAuthorizer.verify after its await: a decision with allow false
\* raises AuthorizationError, a client exception propagates, an allow returns.
verifyNoDenyCheck(clientOutcome) == clientOutcome
verify(clientOutcome) ==
    IF clientOutcome.kind = "decision" /\ ~clientOutcome.allow
    THEN AuthorizationError(clientOutcome)
    ELSE clientOutcome

\* wrapper: the tool runs only on the path where verify returned.
wrapperRunsFunc(verified) == verified.kind = "decision"

\* wrapper: what escapes when verify or the tool raised.  An
\* AuthorizationError is caught and raised again with the same decision;
\* every other exception is not caught.
wrapperRaisesWrapsAll(raised) == AuthorizationError(raised)
wrapperRaises(raised) ==
    IF raised.type = "AuthorizationError"
    THEN AuthorizationError(raised)
    ELSE raised

VARIABLES
    wpc,        \* wrapper invocation: idle, verifying, executing, returned, raised
    wargs,      \* its arguments: the amount and what idempotency_key_fn gave
    wsent,      \* the client.verify_policy calls its verify has made
    wclient,    \* what client.verify_policy came back with
    wverified,  \* what authorizer.verify came back with
    wfuncCalls, \* how often the wrapped function was started
    wresult     \* what the invocation ended with (return or exception)

VARIABLES
    apcSent,     \* the bodies this caller's AgentPassportClient.verify_policy posted
    apcResponse  \* the response it returned to this caller

apcVars == << apcSent, apcResponse >>

authVars == << wpc, wargs, wsent, wclient, wverified, wfuncCalls, wresult >>

AuthInit ==
    /\ wpc = [c \in Callers |-> "idle"]
    /\ wargs = [c \in Callers |-> NoArgs]
    /\ wsent = [c \in Callers |-> << >>]
    /\ wclient = [c \in Callers |-> NoOutcome]
    /\ wverified = [c \in Callers |-> NoOutcome]
    /\ wfuncCalls = [c \in Callers |-> 0]
    /\ wresult = [c \in Callers |-> NoOutcome]

\* Every verify_policy call made so far, by any invocation.
AllSent == UNION {{wsent[c][i] : i \in 1..Len(wsent[c])} : c \in Callers}

\* wrapper, lines 138-154: build the context and the key, enter verify,
\* which calls client.verify_policy and suspends.
WrapperCall(c, amount, key) ==
    /\ wpc[c] = "idle"
    /\ wargs' = [wargs EXCEPT ![c] = [amount |-> amount, idempotency_key |-> key]]
    /\ wsent' = [wsent EXCEPT ![c] =
                    verify_clientCalls(AgentId, RefundPolicy,
                                       build_context(amount), key, AllSent)]
    /\ wpc' = [wpc EXCEPT ![c] = "verifying"]
    /\ UNCHANGED << wclient, wverified, wfuncCalls, wresult >>
    /\ UNCHANGED apcVars

\* client.verify_policy comes back; verify and the wrapper run on to the
\* next await (the tool) or to the exception that leaves the wrapper.
VerifyReturns(c, out) ==
    /\ wpc[c] = "verifying"
    /\ wclient' = [wclient EXCEPT ![c] = out]
    /\ wverified' = [wverified EXCEPT ![c] = verify(out)]
    /\ IF wrapperRunsFunc(verify(out))
       THEN /\ wfuncCalls' = [wfuncCalls EXCEPT ![c] = @ + 1]
            /\ wpc' = [wpc EXCEPT ![c] = "executing"]
            /\ UNCHANGED wresult
       ELSE /\ wresult' = [wresult EXCEPT ![c] = wrapperRaises(verify(out))]
            /\ wpc' = [wpc EXCEPT ![c] = "raised"]
            /\ UNCHANGED wfuncCalls
    /\ UNCHANGED << wargs, wsent >>
    /\ UNCHANGED apcVars

\* The tool finishes: its value is returned, its exception goes through the
\* wrapper's except clause.
FuncFinishes(c, out) ==
    /\ wpc[c] = "executing"
    /\ IF out.kind = "return"
       THEN /\ wresult' = [wresult EXCEPT ![c] = out]
            /\ wpc' = [wpc EXCEPT ![c] = "returned"]
       ELSE /\ wresult' = [wresult EXCEPT ![c] = wrapperRaises(out)]
            /\ wpc' = [wpc EXCEPT ![c] = "raised"]
    /\ UNCHANGED << wargs, wsent, wclient, wverified, wfuncCalls >>
    /\ UNCHANGED apcVars

\* ------------------------------------------------------------------------
\* python/basic_usage.py: AgentPassportClient.verify_policy (blocking)
\* ------------------------------------------------------------------------

\* Keys a caller of the blocking client can pass: none, empty, or a token.
ApcKeys == {None, "", "k1"}

\* The JSON body of POST /api/verify/policy/{pack_id}: the key is added
\* only under `if idempotency_key:`.
request_bodyAlwaysKey(agent_id, policy_id, context, idempotency_key) ==
    [agent_id |-> agent_id, policy_id |-> policy_id, context |-> context,
     idempotency_key |-> idempotency_key]
request_body(agent_id, policy_id, context, idempotency_key) ==
    IF Truthy(idempotency_key)
    THEN [agent_id |-> agent_id, policy_id |-> policy_id, context |-> context,
          idempotency_key |-> idempotency_key]
    ELSE [agent_id |-> agent_id, policy_id |-> policy_id, context |-> context]

\* What _make_request hands back: the status code (0 when the transport
\* raised RequestException) and, for a 200, the decision in the data.
ApcResponses ==
    {[status_code |-> 200, decision_id |-> "dec_1", allow |-> TRUE],
     [status_code |-> 200, decision_id |-> "dec_2", allow |-> FALSE],
     [status_code |-> 503, decision_id |-> None, allow |-> FALSE],
     [status_code |-> 0, decision_id |-> None, allow |-> FALSE]}

NoResponse == [status_code |-> -1, decision_id |-> None, allow |-> FALSE]

ApcInit ==
    /\ apcSent = [c \in Callers |-> << >>]
    /\ apcResponse = [c \in Callers |-> NoResponse]

\* AgentPassportClient.verify_policy, lines 305-350: build the body, post
\* it, print and return the response as it came.
ApcVerifyPolicy(c, amount, key, response) ==
    /\ wpc[c] = "idle"
    /\ wpc' = [wpc EXCEPT ![c] = "apc_returned"]
    /\ wargs' = [wargs EXCEPT ![c] = [amount |-> amount, idempotency_key |-> key]]
    /\ apcSent' = [apcSent EXCEPT ![c] =
                      << request_body(AgentId, RefundPolicy,
                                      build_context(amount), key) >>]
    /\ apcResponse' = [apcResponse EXCEPT ![c] = response]
    /\ UNCHANGED << wsent, wclient, wverified, wfuncCalls, wresult >>


\* ------------------------------------------------------------------------
\* microsoft-agent-framework/aport_middleware.py
\* ------------------------------------------------------------------------

AgentKinds == {"aport_agent_middleware", "AportAgentMiddleware"}
FunctionKinds == {"aport_function_middleware", "AportFunctionMiddleware"}
MiddlewareKinds == AgentKinds \cup FunctionKinds

\* context.function.name; "unknown" stands in when the function has no name.
FunctionNames == {"refund", "Deploy", "custom_tool", "unknown"}

\* str.lower() on the function names in use.
Lower(name) == IF name = "Deploy" THEN "deploy" ELSE name

\* _default_policy_mapping: policy_map.get(function_name.lower()).
_default_policy_mapping(function_name) ==
    CASE Lower(function_name) = "execute_refund" -> "finance.payment.refund.v1"
      [] Lower(function_name) = "process_refund" -> "finance.payment.refund.v1"
      [] Lower(function_name) = "refund" -> "finance.payment.refund.v1"
      [] Lower(function_name) = "export_data" -> "data.export.create.v1"
      [] Lower(function_name) = "create_export" -> "data.export.create.v1"
      [] Lower(function_name) = "merge_pull_request" -> "code.repository.merge.v1"
      [] Lower(function_name) = "deploy" -> "code.deployment.create.v1"
      [] Lower(function_name) = "send_message" -> "messaging.message.send.v1"
      [] OTHER -> None

\* The metadata a run carries: agent_id, agent_passport_id, policy_id and
\* policy_<function_name>, each absent (None), empty or set.
Metadatas ==
    [agent_id : {None, "", "ap_agent"},
     agent_passport_id : {None, "ap_passport"},
     policy_id : {None, "", "finance.payment.refund.v1"},
     policy_function : {None, "custom.policy.v1"}]

\* agent_id = metadata.get("agent_id") or metadata.get("agent_passport_id")
resolve_agent_id(metadata) ==
    Or(metadata.agent_id, metadata.agent_passport_id)

\* The policy a function call is verified under: metadata policy_id, then
\* metadata policy_<function_name>, then (class only) self.policy_mapping,
\* then the default mapping.  None when nothing names a policy.
function_policy_id(kind, metadata, function_name, policy_mapping) ==
    Or(metadata.policy_id,
       Or(metadata.policy_function,
          Or(IF kind = "AportFunctionMiddleware" THEN policy_mapping ELSE None,
             _default_policy_mapping(function_name))))

\* `if not decision.allow:` terminates the run instead of going on to next.
decision_terminatesNever(decision) == FALSE
decision_terminates(decision) == ~decision.allow

\* What client.get_passport_view can come back with.
PassportOutcomes ==
    {[kind |-> "passport", type |-> status, decision_id |-> None, allow |-> FALSE] :
        status \in {"active", "suspended", "revoked"}}
        \cup {RaisedOutcome(t) : t \in ClientErrorTypes}

\* What next(context) can do: set a result, set none, set a result and
\* terminate (a later middleware), or raise.
NextOutcomes == {"result", "no_result", "terminate", "raise"}

NoMetadata ==
    [agent_id |-> None, agent_passport_id |-> None, policy_id |-> None,
     policy_function |-> None]

NoDecisionMeta == [decision_id |-> None, allow |-> FALSE]

\* metadata["aport_decision"] as the context may already hold it when the
\* middleware is entered: nothing, or the entry of an earlier run.
PriorDecisions == {NoDecisionMeta, [decision_id |-> "dec_old", allow |-> TRUE]}

\* The audit_data of generate_audit_trail; NoAudit when none was written.
AuditData(policy_id, decision_id, terminated) ==
    [written |-> TRUE, policy_id |-> policy_id, decision_id |-> decision_id,
     terminated |-> terminated]
NoAudit ==
    [written |-> FALSE, policy_id |-> None, decision_id |-> None,
     terminated |-> FALSE]

\* decision.decision_id if decision else
\* context.metadata.get("aport_decision", {}).get("decision_id")
audit_decision_id(decision, aport_decision) ==
    IF decision.kind = "decision" THEN decision.decision_id
    ELSE aport_decision.decision_id

\* if context.result and not context.terminate: the audit trail is due.
audit_dueAlways(result, terminate) == TRUE
audit_due(result, terminate) == result # None /\ ~terminate

\* context.metadata["aport_decision"] as written after verify_policy.
aport_decisionAlwaysAllowed(decision) ==
    [decision_id |-> decision.decision_id, allow |-> TRUE]
aport_decision(decision) ==
    [decision_id |-> decision.decision_id, allow |-> decision.allow]

\* What is kept of a finished run of aport_agent_middleware when the same
\* context is then given to AportAgentMiddleware.process.
RunSummary(metadata, streaming, framework, prior, client, terminate, next_called) ==
    [taken |-> TRUE, metadata |-> metadata, streaming |-> streaming,
     framework |-> framework, prior |-> prior, client |-> client,
     terminate |-> terminate, next_called |-> next_called]
NoRunSummary ==
    [taken |-> FALSE, metadata |-> NoMetadata, streaming |-> FALSE,
     framework |-> FALSE, prior |-> NoDecisionMeta, client |-> NoOutcome,
     terminate |-> FALSE, next_called |-> FALSE]

VARIABLES
    mpc,         \* idle, verify, passport, next, closing, done
    mkind,       \* which of the four middlewares runs
    mmeta,       \* context.metadata as the caller set it
    mfunction,   \* context.function.name
    mmapping,    \* self.policy_mapping.get(function_name) of the class
    mstreaming,  \* context.is_streaming
    mframework,  \* whether agent_framework can be imported
    mterminate,  \* context.terminate
    mresult,     \* context.result
    maport,      \* context.metadata["aport_decision"]
    merror,      \* context.metadata["error"]
    mclient,     \* what verify_policy or get_passport_view came back with
    mprior,      \* context.metadata["aport_decision"] at entry
    maudit,      \* the audit_data generate_audit_trail logged
    mprev,       \* the function-based run the class-based one is set against
    mtrace       \* the calls made, in order: verify_policy,
                 \* get_passport_view, next, audit, close

mwVars == << mpc, mkind, mmeta, mfunction, mmapping, mstreaming, mframework,
             mterminate, mresult, maport, merror, mclient, mprior, maudit,
             mprev, mtrace >>

MwInit ==
    /\ mpc = "idle"
    /\ mkind = None
    /\ mmeta = NoMetadata
    /\ mfunction = None
    /\ mmapping = None
    /\ mstreaming = FALSE
    /\ mframework = FALSE
    /\ mterminate = FALSE
    /\ mresult = None
    /\ maport = NoDecisionMeta
    /\ merror = None
    /\ mclient = NoOutcome
    /\ mprior = NoDecisionMeta
    /\ maudit = NoAudit
    /\ mprev = NoRunSummary
    /\ mtrace = << >>

\* The agent middlewares' error reporting: a result unless streaming; the
\* function-based one reports through metadata["error"] when streaming.
\* Where the import of agent_framework is not guarded (the missing-agent-id
\* branch of aport_agent_middleware) its ImportError lands in
\* `except Exception`, which reports internal_error instead.
AgentReport(kind, streaming, framework, guarded, what) ==
    LET w == IF ~guarded /\ ~framework /\ ~streaming
             THEN "internal_error" ELSE what
    IN  [result |-> IF streaming THEN None ELSE w,
         error |-> IF streaming /\ kind = "aport_agent_middleware" THEN w ELSE None]

\* terminate = True, the error report, and on to the finally / __aexit__.
MwTerminateWithoutClose(report) ==
    /\ mterminate' = TRUE
    /\ mresult' = IF report.result # None THEN report.result ELSE mresult
    /\ merror' = IF report.error # None THEN report.error ELSE merror
    /\ mpc' = "done"
MwTerminate(report) ==
    /\ mterminate' = TRUE
    /\ mresult' = IF report.result # None THEN report.result ELSE mresult
    /\ merror' = IF report.error # None THEN report.error ELSE merror
    /\ mpc' = "closing"

FunctionReport(what) == [result |-> what, error |-> None]

Report(kind, what) ==
    IF kind \in AgentKinds
    THEN AgentReport(kind, mstreaming, mframework, TRUE, what)
    ELSE FunctionReport(what)

\* Entry of a middleware up to its first await.
MwStart(kind, metadata, function_name, policy_mapping, streaming, framework, prior) ==
    /\ mpc = "idle"
    /\ mprev.taken =>
          /\ kind = "AportAgentMiddleware"
          /\ metadata = mprev.metadata
          /\ streaming = mprev.streaming
          /\ framework = mprev.framework
          /\ prior = mprev.prior
    /\ mprior' = prior
    /\ maport' = prior
    /\ UNCHANGED << maudit, mprev >>
    /\ mkind' = kind
    /\ mmeta' = metadata
    /\ mfunction' = function_name
    /\ mmapping' = policy_mapping
    /\ mstreaming' = streaming
    /\ mframework' = framework
    /\ UNCHANGED mclient
    /\ IF kind = "AportAgentMiddleware"
       THEN \* lines 583-602: only the warning is under `if not agent_id:`;
            \* terminate, the result and the return run for every context.
            /\ MwTerminate(AgentReport(kind, streaming, framework, TRUE,
                                       "missing_agent_id"))
            /\ UNCHANGED mtrace
       ELSE IF ~Truthy(resolve_agent_id(metadata))
       THEN /\ MwTerminate(IF kind = "aport_agent_middleware"
                           THEN AgentReport(kind, streaming, framework, FALSE,
                                            "missing_agent_id")
                           ELSE FunctionReport("missing_agent_id"))
            /\ UNCHANGED mtrace
       ELSE IF kind = "aport_agent_middleware"
       THEN /\ mtrace' = << IF Truthy(metadata.policy_id)
                            THEN "verify_policy" ELSE "get_passport_view" >>
            /\ mpc' = IF Truthy(metadata.policy_id) THEN "verify" ELSE "passport"
            /\ UNCHANGED << mterminate, mresult, merror >>
       ELSE IF ~Truthy(function_policy_id(kind, metadata, function_name,
                                          policy_mapping))
       THEN \* continue without authorization if no policy is specified
            /\ mtrace' = << "next" >>
            /\ mpc' = "next"
            /\ UNCHANGED << mterminate, mresult, merror >>
       ELSE /\ mtrace' = << "verify_policy" >>
            /\ mpc' = "verify"
            /\ UNCHANGED << mterminate, mresult, merror >>

\* client.verify_policy comes back in an agent or function middleware.
MwVerifyReturns(out) ==
    /\ mpc = "verify"
    /\ mclient' = out
    /\ UNCHANGED << mkind, mmeta, mfunction, mmapping, mstreaming, mframework,
                    mprior, maudit, mprev >>
    /\ IF out.kind = "decision"
       THEN /\ maport' = aport_decision(out)
            /\ IF decision_terminates(out)
               THEN /\ MwTerminate(Report(mkind,
                            IF mkind \in AgentKinds THEN "policy_violation"
                            ELSE "authorization_denied"))
                    /\ UNCHANGED mtrace
               ELSE /\ mtrace' = Append(mtrace, "next")
                    /\ mpc' = "next"
                    /\ UNCHANGED << mterminate, mresult, merror >>
       ELSE /\ UNCHANGED << maport, mtrace >>
            /\ MwTerminate(Report(mkind,
                    IF out.type # "AportError" THEN "internal_error"
                    ELSE IF mkind \in AgentKinds THEN "agent_verification_failed"
                    ELSE "authorization_failed"))

\* client.get_passport_view comes back (aport_agent_middleware without a
\* policy_id): the view is stored and the run goes on, whatever its status.
MwPassportReturns(out) ==
    /\ mpc = "passport"
    /\ mclient' = out
    /\ UNCHANGED << mkind, mmeta, mfunction, mmapping, mstreaming, mframework,
                    maport, mprior, maudit, mprev >>
    /\ IF out.kind = "passport"
       THEN /\ mtrace' = Append(mtrace, "next")
            /\ mpc' = "next"
            /\ UNCHANGED << mterminate, mresult, merror >>
       ELSE /\ UNCHANGED mtrace
            /\ MwTerminate(Report(mkind,
                    IF out.type # "AportError" THEN "internal_error"
                    ELSE "agent_verification_failed"))

\* next(context) comes back.  The agent middleware then writes the audit
\* trail if there is a result and the run was not terminated.
MwNextReturns(out) ==
    /\ mpc = "next"
    /\ UNCHANGED << mkind, mmeta, mfunction, mmapping, mstreaming, mframework,
                    maport, mclient, mprior, mprev >>
    /\ IF out = "raise"
       THEN /\ MwTerminate(Report(mkind, "internal_error"))
            /\ UNCHANGED << mtrace, maudit >>
       ELSE /\ mresult' = IF out = "no_result" THEN mresult ELSE "agent_response"
            /\ mterminate' = (mterminate \/ out = "terminate")
            /\ mtrace' = IF mkind \in AgentKinds
                                /\ audit_due(mresult', mterminate')
                         THEN Append(mtrace, "audit") ELSE mtrace
            /\ maudit' = IF mkind \in AgentKinds
                                /\ audit_due(mresult', mterminate')
                         THEN AuditData(mmeta.policy_id,
                                        audit_decision_id(mclient, maport),
                                        mterminate')
                         ELSE maudit
            /\ mpc' = "closing"
            /\ UNCHANGED merror

\* finally: await client.close()  /  leaving `async with APortClient(...)`.
MwClose ==
    /\ mpc = "closing"
    /\ mtrace' = Append(mtrace, "close")
    /\ mpc' = "done"
    /\ UNCHANGED << mkind, mmeta, mfunction, mmapping, mstreaming, mframework,
                    mterminate, mresult, maport, merror, mclient, mprior,
                    maudit, mprev >>

\* A run of aport_agent_middleware is over and a context with the same
\* metadata and flags is about to be given to AportAgentMiddleware.process:
\* the outcome of the first run is kept and the context is fresh again.
MwSameContextForClass ==
    /\ mpc = "done"
    /\ mkind = "aport_agent_middleware"
    /\ ~mprev.taken
    /\ mprev' = RunSummary(mmeta, mstreaming, mframework, mprior, mclient,
                           mterminate, \E i \in 1..Len(mtrace) :
                                           mtrace[i] = "next")
    /\ mpc' = "idle"
    /\ mkind' = None
    /\ mmeta' = NoMetadata
    /\ mfunction' = None
    /\ mmapping' = None
    /\ mstreaming' = FALSE
    /\ mframework' = FALSE
    /\ mterminate' = FALSE
    /\ mresult' = None
    /\ maport' = NoDecisionMeta
    /\ merror' = None
    /\ mclient' = NoOutcome
    /\ mprior' = NoDecisionMeta
    /\ maudit' = NoAudit
    /\ mtrace' = << >>

\* ------------------------------------------------------------------------
\* python/mcp_enforcement.py
\* ------------------------------------------------------------------------

\* A header value is a sequence of characters; a header that is absent and
\* one that is empty are both falsy and are both written << >>.
NoHeader == << >>

\* str.split(","): the parts between the commas, empty parts included.
RECURSIVE Split(_)
Split(str) ==
    IF \A i \in 1..Len(str) : str[i] # ","
    THEN << str >>
    ELSE LET i == CHOOSE j \in 1..Len(str) :
                    str[j] = "," /\ \A k \in 1..(j - 1) : str[k] # ","
         IN  << SubSeq(str, 1, i - 1) >> \o Split(SubSeq(str, i + 1, Len(str)))

\* str.strip(): leading and trailing blanks removed.
RECURSIVE Strip(_)
Strip(str) ==
    IF str = << >> THEN str
    ELSE IF Head(str) = " " THEN Strip(Tail(str))
    ELSE IF str[Len(str)] = " " THEN Strip(SubSeq(str, 1, Len(str) - 1))
    ELSE str

\* [s.strip() for s in header.split(",")] if "," in header else [header]
parse_listAlwaysStrips(header) ==
    IF header = NoHeader THEN << >>
    ELSE [i \in 1..Len(Split(header)) |-> Strip(Split(header)[i])]
parse_list(header) ==
    IF header = NoHeader THEN << >>
    ELSE IF \E i \in 1..Len(header) : header[i] = ","
    THEN [i \in 1..Len(Split(header)) |-> Strip(Split(header)[i])]
    ELSE << header >>

HeaderOr(a, b) == IF a # NoHeader THEN a ELSE b

\* extract_mcp_headers: the plural header wins over the singular one.
extract_mcp_headers(headers) ==
    LET servers == parse_list(HeaderOr(headers.servers, headers.server))
        tools == parse_list(HeaderOr(headers.tools, headers.tool))
    IN  [servers |-> servers,
         tools |-> tools,
         session |-> headers.session,
         server |-> IF servers # << >> THEN servers[1] ELSE NoHeader,
         tool |-> IF tools # << >> THEN tools[1] ELSE NoHeader]

\* [x for x in requested if x not in allowed], in request order.
RECURSIVE NotIn(_, _)
NotIn(requested, allowed) ==
    IF requested = << >> THEN << >>
    ELSE (IF Head(requested) \in allowed THEN << >> ELSE << Head(requested) >>)
            \o NotIn(Tail(requested), allowed)

McpPassed ==
    [status |-> 200, error |-> None,
     unauthorized_servers |-> << >>, unauthorized_tools |-> << >>]
McpDenied(error, servers, tools) ==
    [status |-> 403, error |-> error,
     unauthorized_servers |-> servers, unauthorized_tools |-> tools]

\* passport.get("mcp", {}).get("servers", []) and the same for tools.
allowed_servers(passport) == IF passport.has_mcp THEN passport.servers ELSE {}
allowed_tools(passport) == IF passport.has_mcp THEN passport.tools ELSE {}

\* validate_mcp_against_passport once the passport is there: the servers
\* are checked first and raise on their own; the tools are only looked at
\* when every server is allowlisted.
validate_mcpOnlyIfAllUnauthorized(passport, mcp_headers) ==
    LET bad_servers == NotIn(mcp_headers.servers, allowed_servers(passport))
        bad_tools == NotIn(mcp_headers.tools, allowed_tools(passport))
    IN  IF bad_servers # << >> /\ Len(bad_servers) = Len(mcp_headers.servers)
        THEN McpDenied("mcp_server_not_allowed", bad_servers, << >>)
        ELSE IF bad_tools # << >> /\ Len(bad_tools) = Len(mcp_headers.tools)
        THEN McpDenied("mcp_tool_not_allowed", << >>, bad_tools)
        ELSE McpPassed
validate_mcpFirstOnly(passport, mcp_headers) ==
    LET bad_servers == NotIn(mcp_headers.servers, allowed_servers(passport))
        bad_tools == NotIn(mcp_headers.tools, allowed_tools(passport))
    IN  IF bad_servers # << >>
        THEN McpDenied("mcp_server_not_allowed", << bad_servers[1] >>, << >>)
        ELSE IF bad_tools # << >>
        THEN McpDenied("mcp_tool_not_allowed", << >>, << bad_tools[1] >>)
        ELSE McpPassed
validate_mcpServersOnly(passport, mcp_headers) ==
    LET bad_servers == NotIn(mcp_headers.servers, allowed_servers(passport))
    IN  IF bad_servers # << >>
        THEN McpDenied("mcp_server_not_allowed", bad_servers, << >>)
        ELSE McpPassed
validate_mcp_against_passport(passport, mcp_headers) ==
    LET bad_servers == NotIn(mcp_headers.servers, allowed_servers(passport))
        bad_tools == NotIn(mcp_headers.tools, allowed_tools(passport))
    IN  IF bad_servers # << >>
        THEN McpDenied("mcp_server_not_allowed", bad_servers, << >>)
        ELSE IF bad_tools # << >>
        THEN McpDenied("mcp_tool_not_allowed", << >>, bad_tools)
        ELSE McpPassed

Endpoints == {"basic_mcp_endpoint", "create_refund", "export_csv"}

\* Header values a request can carry.
ServersHeaders == {NoHeader, << "A" >>, << "A", ",", "B" >>,
                   << "A", ",", " ", "C" >>}
ServerHeaders == {NoHeader, << "B" >>, << " ", "A" >>}
ToolsHeaders == {NoHeader, << "X" >>, << "X", ",", "Y" >>}
ToolHeaders == {NoHeader, << "Y" >>}
SessionHeaders == {NoHeader, << "s" >>}

RequestHeaders ==
    [servers : ServersHeaders, server : ServerHeaders, tools : ToolsHeaders,
     tool : ToolHeaders, session : SessionHeaders, request_id : {None, "r1"}]

NoRequestHeaders ==
    [servers |-> NoHeader, server |-> NoHeader, tools |-> NoHeader,
     tool |-> NoHeader, session |-> NoHeader, request_id |-> None]

\* X-Agent-Passport-Id: absent, empty or set.
AgentHeaders == {None, "", "ap_agent"}

\* The passports get_passport_view can return, by their mcp section.
McpPassports ==
    {[kind |-> "passport", has_mcp |-> TRUE, servers |-> sv, tools |-> tl,
      status |-> 200, message |-> None] :
        sv \in {{}, {<< "A" >>}, {<< "A" >>, << "B" >>}},
        tl \in {{}, {<< "X" >>}, {<< "X" >>, << "Y" >>}}}
        \cup {[kind |-> "passport", has_mcp |-> FALSE, servers |-> {},
               tools |-> {}, status |-> 200, message |-> None]}

\* The exceptions the SDK client can raise in an endpoint: an AportError
\* with a status or without one, or another exception whose text the
\* global handler looks into.
EndpointErrors ==
    {[kind |-> "AportError", has_mcp |-> FALSE, servers |-> {}, tools |-> {},
      status |-> st, message |-> None] : st \in {0, 404}}
        \cup {[kind |-> "Exception", has_mcp |-> FALSE, servers |-> {},
               tools |-> {}, status |-> 0, message |-> m] :
                  m \in {"plain", "MCP", "agent"}}

NoPassport ==
    [kind |-> "none", has_mcp |-> FALSE, servers |-> {}, tools |-> {},
     status |-> 0, message |-> None]

\* e.status if hasattr(e, "status") else 500 (0 stands for no status).
aport_error_status(e) == IF e.status # 0 THEN e.status ELSE 500

\* global_exception_handler: the status by what the message mentions.
global_exception_handler(e) ==
    IF e.message = "MCP" THEN [status |-> 403, error |-> "mcp_enforcement_failed"]
    ELSE IF e.message = "agent"
    THEN [status |-> 401, error |-> "authentication_failed"]
    ELSE [status |-> 500, error |-> "internal_server_error"]

Response(status, error, decision_id) ==
    [status |-> status, error |-> error, decision_id |-> decision_id]

NoResponseYet == Response(0, None, None)

\* What a failed SDK call turns into.
error_response(e, error) ==
    IF e.kind = "AportError"
    THEN Response(aport_error_status(e), error, None)
    ELSE Response(global_exception_handler(e).status,
                  global_exception_handler(e).error, None)

\* refund_data.idempotency_key or f"refund_{X-Request-ID or 'unknown'}",
\* as the pair of its prefix and its token.
refund_idempotency_key(body_key, request_id) ==
    IF Truthy(body_key) THEN << "", body_key >>
    ELSE << "refund_", IF request_id # None THEN request_id ELSE "unknown" >>

\* The mcp_* fields added to the context, each only when its value is set.
mcp_contextAlwaysLists(mcp_headers) ==
    [mcp_servers |-> mcp_headers.servers, mcp_tools |-> mcp_headers.tools]
mcp_context(mcp_headers) ==
    LET field(name, value) ==
            IF value # << >> THEN name :> value ELSE << >>
    IN  field("mcp_servers", mcp_headers.servers)
            @@ field("mcp_tools", mcp_headers.tools)
            @@ field("mcp_server", mcp_headers.server)
            @@ field("mcp_tool", mcp_headers.tool)
            @@ field("mcp_session", mcp_headers.session)

\* The context an endpoint sends to verify_policy.
policy_context(endpoint, body, headers, mcp_headers) ==
    IF endpoint = "create_refund"
    THEN [order_id |-> body.order_id,
          idempotency_key |->
              refund_idempotency_key(body.idempotency_key, headers.request_id)]
             @@ mcp_context(mcp_headers)
    ELSE [table_name |-> "users"] @@ mcp_context(mcp_headers)

endpoint_policy(endpoint) ==
    IF endpoint = "create_refund" THEN "finance.payment.refund.v1"
    ELSE "data.export.create.v1"

\* After verify_policy: `if not decision.allow:` is a 403, else the success.
decision_responseIgnoringAllow(decision) ==
    Response(200, None, decision.decision_id)
decision_response(decision) ==
    IF ~decision.allow
    THEN Response(403, "policy_violation", decision.decision_id)
    ELSE Response(200, None, decision.decision_id)

\* `if not x_agent_passport_id:` is the 401.
agent_header_missingNever(x_agent_passport_id) == FALSE
agent_header_missing(x_agent_passport_id) == ~Truthy(x_agent_passport_id)

Bodies == [idempotency_key : {None, "k1"}, order_id : {"o1", "o2"}]
NoBody == [idempotency_key |-> None, order_id |-> None]
NoMcpHeaders == extract_mcp_headers(NoRequestHeaders)
NoContext == << >>

\* What is kept of a refund request that reached verify_policy: its order,
\* the idempotency_key and X-Request-ID its caller supplied, and the
\* idempotency_key of the context it sent.
RefundSent(body, headers, context) ==
    [taken |-> TRUE, order_id |-> body.order_id,
     supplied_key |-> body.idempotency_key, request_id |-> headers.request_id,
     idempotency_key |-> context.idempotency_key]
NoRefundSent ==
    [taken |-> FALSE, order_id |-> None, supplied_key |-> None,
     request_id |-> None, idempotency_key |-> << "", None >>]

VARIABLES
    epc,         \* idle, mcp_passport, verify, done
    eendpoint,   \* the endpoint called
    eagent,      \* X-Agent-Passport-Id
    eheaders,    \* the MCP headers and X-Request-ID of the request
    ebody,       \* the request body
    emcp,        \* what extract_mcp_headers returned
    epassport,   \* what get_passport_view came back with
    evalidation, \* what validate_mcp_against_passport found
    econtext,    \* the context passed to verify_policy
    everify,     \* what verify_policy came back with
    eresponse,   \* the HTTP response
    ecalls,      \* the SDK calls made, in order
    eprev        \* an earlier refund request of the same service

mcpVars == << epc, eendpoint, eagent, eheaders, ebody, emcp, epassport,
              evalidation, econtext, everify, eresponse, ecalls, eprev >>

McpInit ==
    /\ epc = "idle"
    /\ eendpoint = None
    /\ eagent = None
    /\ eheaders = NoRequestHeaders
    /\ ebody = NoBody
    /\ emcp = NoMcpHeaders
    /\ epassport = NoPassport
    /\ evalidation = McpPassed
    /\ econtext = NoContext
    /\ everify = NoOutcome
    /\ eresponse = NoResponseYet
    /\ ecalls = << >>
    /\ eprev = NoRefundSent

\* The endpoint body after the MCP check: basic_mcp_endpoint answers, the
\* other two build the context and call verify_policy.
EpAfterMcp(endpoint, body, headers, mcp_headers) ==
    IF endpoint = "basic_mcp_endpoint"
    THEN /\ eresponse' = Response(200, None, None)
         /\ epc' = "done"
         /\ UNCHANGED << econtext, ecalls >>
    ELSE /\ econtext' = policy_context(endpoint, body, headers, mcp_headers)
         /\ ecalls' = Append(ecalls, "verify_policy")
         /\ epc' = "verify"
         /\ UNCHANGED eresponse

\* A request arrives: the 401, or the header extraction and either the
\* passport fetch of validate_mcp_against_passport or the endpoint body.
EpRequest(endpoint, agent, headers, body) ==
    /\ epc = "idle"
    /\ eprev.taken =>
          /\ endpoint = "create_refund"
          /\ agent = "ap_agent"
          /\ extract_mcp_headers(headers) = NoMcpHeaders
    /\ eendpoint' = endpoint
    /\ eagent' = agent
    /\ eheaders' = headers
    /\ ebody' = body
    /\ UNCHANGED << epassport, evalidation, everify, eprev >>
    /\ IF agent_header_missing(agent)
       THEN /\ eresponse' = Response(401, "missing_agent_id", None)
            /\ epc' = "done"
            /\ UNCHANGED << emcp, econtext, ecalls >>
       ELSE /\ emcp' = extract_mcp_headers(headers)
            /\ IF emcp'.servers # << >> \/ emcp'.tools # << >>
               THEN /\ ecalls' = Append(ecalls, "get_passport_view")
                    /\ epc' = "mcp_passport"
                    /\ UNCHANGED << econtext, eresponse >>
               ELSE EpAfterMcp(endpoint, body, headers, emcp')

\* get_passport_view comes back inside validate_mcp_against_passport.
EpPassportReturns(out) ==
    /\ epc = "mcp_passport"
    /\ epassport' = out
    /\ UNCHANGED << eendpoint, eagent, eheaders, ebody, emcp, everify, eprev >>
    /\ IF out.kind = "passport"
       THEN /\ evalidation' = validate_mcp_against_passport(out, emcp)
            /\ IF evalidation'.status = 403
               THEN /\ eresponse' = Response(403, evalidation'.error, None)
                    /\ epc' = "done"
                    /\ UNCHANGED << econtext, ecalls >>
               ELSE EpAfterMcp(eendpoint, ebody, eheaders, emcp)
       ELSE /\ eresponse' = error_response(out, "passport_fetch_failed")
            /\ epc' = "done"
            /\ UNCHANGED << evalidation, econtext, ecalls >>

\* verify_policy comes back in create_refund or export_csv.
EpVerifyReturns(out) ==
    /\ epc = "verify"
    /\ everify' = out
    /\ eresponse' = IF out.kind = "decision" THEN decision_response(out)
                    ELSE error_response(out, "policy_verification_failed")
    /\ epc' = "done"
    /\ UNCHANGED << eendpoint, eagent, eheaders, ebody, emcp, epassport,
                    evalidation, econtext, ecalls, eprev >>

\* A refund request is over and the service takes another one: what the
\* first request sent is kept, everything else is as at the start.
EpNextRefund ==
    /\ epc = "done"
    /\ eendpoint = "create_refund"
    /\ everify # NoOutcome
    /\ ~eprev.taken
    /\ eprev' = RefundSent(ebody, eheaders, econtext)
    /\ epc' = "idle"
    /\ eendpoint' = None
    /\ eagent' = None
    /\ eheaders' = NoRequestHeaders
    /\ ebody' = NoBody
    /\ emcp' = NoMcpHeaders
    /\ epassport' = NoPassport
    /\ evalidation' = McpPassed
    /\ econtext' = NoContext
    /\ everify' = NoOutcome
    /\ eresponse' = NoResponseYet
    /\ ecalls' = << >>

\* What verify_policy can come back with in an endpoint.
EndpointVerifyOutcomes ==
    {[kind |-> "decision", has_mcp |-> FALSE, servers |-> {}, tools |-> {},
      status |-> 200, message |-> None, decision_id |-> id, allow |-> a] :
        id \in DecisionIds, a \in BOOLEAN}
        \cup {e @@ [decision_id |-> None, allow |-> FALSE] : e \in EndpointErrors}


\* ------------------------------------------------------------------------
\* python/basic_usage.py: the assurance comparison, verify_with_retry and
\* demonstrate_capabilities_and_limits
\* ------------------------------------------------------------------------

\* Attempts a caller may ask of verify_with_retry.
MaxRetries == 3

levels == << "L0", "L1", "L2", "L3", "L4KYC", "L4FIN" >>

\* Tier names a caller can pass: the known ones and some unknown ones.
TierNames == {"L0", "L1", "L2", "L3", "L4KYC", "L4FIN", "L5", "l2", ""}

\* list.index(x), from 0; -1 stands for the ValueError.
index(list, x) ==
    IF \E i \in 1..Len(list) : list[i] = x
    THEN (CHOOSE i \in 1..Len(list) :
             list[i] = x /\ \A j \in 1..(i - 1) : list[j] # x) - 1
    ELSE -1

_compare_assurance_levelsKnownOnly(current, required) ==
    index(levels, current) >= index(levels, required)
_compare_assurance_levelsTopTiersApart(current, required) ==
    IF index(levels, current) = -1 \/ index(levels, required) = -1
    THEN FALSE
    ELSE IF {current, required} = {"L4KYC", "L4FIN"} THEN FALSE
    ELSE index(levels, current) >= index(levels, required)
_compare_assurance_levels(current, required) ==
    IF index(levels, current) = -1 \/ index(levels, required) = -1
    THEN FALSE
    ELSE index(levels, current) >= index(levels, required)

RECURSIVE Pow2(_)
Pow2(n) == IF n = 0 THEN 1 ELSE 2 * Pow2(n - 1)

\* What verify_passport hands back, as _make_request built it: the status
\* code (0 for a requests.RequestException) and the data, which is the
\* parsed JSON object or, when the body is not JSON, the body text.
HttpResponse(status_code, data, retryAfter) ==
    [status_code |-> status_code, data |-> data, retryAfter |-> retryAfter]

RetryStatuses == {200, 429, 400, 403, 404, 500}

HttpResponses ==
    {HttpResponse(st, d, -1) : st \in RetryStatuses, d \in {"dict", "text"}}
        \cup {HttpResponse(429, "dict", 1), HttpResponse(0, "dict", -1)}

NoHttpResponse == HttpResponse(-1, None, -1)

\* for attempt in range(1, max_retries + 1)
attempt_rangeFromZero(max_retries) == 0..max_retries
attempt_range(max_retries) == 1..max_retries

\* One pass through the body of the loop of verify_with_retry for the
\* response of this attempt: return a value, or sleep and `continue`, or
\* fall out of the if to the next iteration.  A 429 whose data is not an
\* object raises AttributeError at .get and is handled by the except
\* clause, which sleeps as the else branch does.
Returns(value) == [step |-> "return", sleep |-> 0, value |-> value]
Continues(sleep) == [step |-> "continue", sleep |-> sleep, value |-> "none"]
FallsThrough == [step |-> "fall_through", sleep |-> 0, value |-> "none"]

attempt_outcomeIgnoresRetryAfter(response, attempt, max_retries) ==
    IF response.status_code = 200 THEN Returns("data")
    ELSE IF attempt < max_retries THEN Continues(Pow2(attempt))
    ELSE FallsThrough
attempt_outcomeRetryTransientOnly(response, attempt, max_retries) ==
    IF response.status_code = 200 /\ response.data = "dict"
    THEN Returns("data")
    ELSE IF response.data = "text"
             \/ response.status_code \in {400, 403, 404}
    THEN Returns("none")
    ELSE IF attempt < max_retries THEN Continues(Pow2(attempt))
    ELSE FallsThrough
attempt_outcome(response, attempt, max_retries) ==
    IF response.status_code = 200 THEN Returns("data")
    ELSE IF response.status_code = 429 /\ response.data = "dict"
    THEN IF attempt < max_retries
         THEN Continues(IF response.retryAfter # -1
                        THEN response.retryAfter ELSE Pow2(attempt))
         ELSE FallsThrough
    ELSE IF attempt < max_retries THEN Continues(Pow2(attempt))
    ELSE FallsThrough

\* The amounts the enforcement examples test against the limits.
refund_amount == 5000
requested_rows == 5000

\* A limit entry of the passport: absent, or present with a number.
Limit(present, value) == [present |-> present, value |-> value]
NoLimit == Limit(FALSE, 0)
LimitEntries ==
    {NoLimit} \cup {Limit(TRUE, v) :
        v \in {0, refund_amount - 1, refund_amount, refund_amount + 1}}

\* Entries a capabilities list may hold.
MaxCaps == 2

CapabilityIds == {"finance.payment.refund", "data.export", "messaging.send"}

\* A capability entry: its id and, for messaging.send, the
\* channels_allowlist of its params (None when it has none).
Capability(id, channels) == [id |-> id, channels |-> channels]
NoCapability == Capability(None, None)
Capabilities ==
    {Capability(id, None) : id \in CapabilityIds}
        \cup {Capability("messaging.send", ch) : ch \in {"c1", "c2"}}

RECURSIVE SeqsUpTo(_, _)
SeqsUpTo(S, n) ==
    IF n = 0 THEN {<< >>}
    ELSE SeqsUpTo(S, n - 1)
            \cup {Append(q, x) : q \in SeqsUpTo(S, n - 1), x \in S}

\* The passports verify_passport can return for the demonstration.
DemoPassports ==
    [capabilities : SeqsUpTo(Capabilities, MaxCaps),
     refund_amount_max_per_tx : LimitEntries,
     max_export_rows : LimitEntries,
     assurance_level : {None, "L1", "L2", "L4KYC", "L4FIN", "L5"}]

NoDemoPassport ==
    [capabilities |-> << >>, refund_amount_max_per_tx |-> NoLimit,
     max_export_rows |-> NoLimit, assurance_level |-> None]

\* passport.get('limits', {}).get(name): falsy for an absent entry and
\* for the number 0.
limit_is_setAlways(limit) == TRUE
limit_is_set(limit) == limit.present /\ limit.value # 0

\* The outcome of one limit example: the capability is looked up, the
\* limit is compared only if the lookup of its entry is truthy.
limit_check(has_cap, limit, requested) ==
    IF ~has_cap THEN "no_capability"
    ELSE IF ~limit_is_set(limit) THEN "not_checked"
    ELSE IF requested <= limit.value THEN "within_limit"
    ELSE "exceeds_limit"

\* any(cap['id'] == id for cap in passport.get('capabilities', []))
has_capability(passport, id) ==
    \E i \in 1..Len(passport.capabilities) : passport.capabilities[i].id = id

\* next((cap for cap in capabilities if cap['id'] == id), None)
find_capabilityLastWins(capabilities, id) ==
    IF \E i \in 1..Len(capabilities) : capabilities[i].id = id
    THEN capabilities[CHOOSE i \in 1..Len(capabilities) :
            /\ capabilities[i].id = id
            /\ \A j \in (i + 1)..Len(capabilities) : capabilities[j].id # id]
    ELSE NoCapability
find_capability(capabilities, id) ==
    IF \E i \in 1..Len(capabilities) : capabilities[i].id = id
    THEN capabilities[CHOOSE i \in 1..Len(capabilities) :
            /\ capabilities[i].id = id
            /\ \A j \in 1..(i - 1) : capabilities[j].id # id]
    ELSE NoCapability

\* The messaging example: the capability line and, when the entry found
\* has a channels_allowlist, the channels printed.
messaging_example(passport) ==
    IF has_capability(passport, "messaging.send")
    THEN [has |-> TRUE,
          channels |->
              find_capability(passport.capabilities, "messaging.send").channels]
    ELSE [has |-> FALSE, channels |-> None]

required_levels == [refunds |-> "L2", payouts |-> "L3", admin |-> "L4KYC"]

\* What demonstrate_capabilities_and_limits prints for a passport.
NoDemoReport ==
    [refund |-> "none", export |-> "none",
     messaging |-> [has |-> FALSE, channels |-> None],
     routes |-> [r \in DOMAIN required_levels |-> FALSE],
     routes_shown |-> FALSE]

demo_report(passport) ==
    [refund |-> limit_check(
                    has_capability(passport, "finance.payment.refund"),
                    passport.refund_amount_max_per_tx, refund_amount),
     export |-> limit_check(has_capability(passport, "data.export"),
                            passport.max_export_rows, requested_rows),
     messaging |-> messaging_example(passport),
     routes |-> [r \in DOMAIN required_levels |->
                    Truthy(passport.assurance_level)
                    /\ _compare_assurance_levels(passport.assurance_level,
                                                 required_levels[r])],
     routes_shown |-> Truthy(passport.assurance_level)]

VARIABLES
    cpc,         \* idle, compared, retry_calling, retry_done, demo_calling,
                 \* demo_done
    lcurrent,    \* _compare_assurance_levels: current
    lrequired,   \* _compare_assurance_levels: required
    lresult,     \* _compare_assurance_levels: the value returned
    rmax,        \* verify_with_retry: max_retries
    rattempt,    \* verify_with_retry: attempt
    rresponses,  \* the responses verify_passport gave, in order
    rsleeps,     \* the arguments of time.sleep, in order
    rresult,     \* what verify_with_retry returned
    dpassport,   \* the passport of the demonstration
    dstatus,     \* the status code verify_passport gave the demonstration
    dreport      \* what the demonstration printed

cliVars == << cpc, lcurrent, lrequired, lresult, rmax, rattempt, rresponses,
              rsleeps, rresult, dpassport, dstatus, dreport >>

CliInit ==
    /\ cpc = "idle"
    /\ lcurrent = None /\ lrequired = None /\ lresult = FALSE
    /\ rmax = 0 /\ rattempt = 0
    /\ rresponses = << >> /\ rsleeps = << >>
    /\ rresult = NoHttpResponse
    /\ dpassport = NoDemoPassport /\ dstatus = 0
    /\ dreport = NoDemoReport

\* _compare_assurance_levels(current, required) is called.
CompareLevels(current, required) ==
    /\ cpc = "idle"
    /\ lcurrent' = current
    /\ lrequired' = required
    /\ lresult' = _compare_assurance_levels(current, required)
    /\ cpc' = "compared"
    /\ UNCHANGED << rmax, rattempt, rresponses, rsleeps, rresult, dpassport,
                    dstatus, dreport >>

\* The value verify_with_retry returns when the loop is over.
ReturnedNone == HttpResponse(0, None, -1)

\* verify_with_retry(agent_id, max_retries) is called: the first attempt
\* calls verify_passport, or the loop is empty and None is returned.
RetryStart(max_retries) ==
    /\ cpc = "idle"
    /\ rmax' = max_retries
    /\ IF attempt_range(max_retries) # {}
       THEN /\ rattempt' = CHOOSE a \in attempt_range(max_retries) :
                    \A b \in attempt_range(max_retries) : a <= b
            /\ cpc' = "retry_calling"
            /\ UNCHANGED rresult
       ELSE /\ rresult' = ReturnedNone
            /\ cpc' = "retry_done"
            /\ UNCHANGED rattempt
    /\ UNCHANGED << lcurrent, lrequired, lresult, rresponses, rsleeps,
                    dpassport, dstatus, dreport >>

\* verify_passport comes back in attempt rattempt.
RetryAttemptReturns(response) ==
    /\ cpc = "retry_calling"
    /\ rresponses' = Append(rresponses, response)
    /\ LET out == attempt_outcome(response, rattempt, rmax)
       IN  IF out.step = "return"
           THEN /\ rresult' = IF out.value = "data" THEN response
                              ELSE ReturnedNone
                /\ cpc' = "retry_done"
                /\ UNCHANGED << rattempt, rsleeps >>
           ELSE /\ rsleeps' = IF out.step = "continue"
                              THEN Append(rsleeps, out.sleep) ELSE rsleeps
                /\ IF rattempt + 1 \in attempt_range(rmax)
                   THEN /\ rattempt' = rattempt + 1
                        /\ UNCHANGED << rresult, cpc >>
                   ELSE /\ rresult' = ReturnedNone
                        /\ cpc' = "retry_done"
                        /\ UNCHANGED rattempt
    /\ UNCHANGED << lcurrent, lrequired, lresult, rmax, dpassport, dstatus,
                    dreport >>

\* demonstrate_capabilities_and_limits calls verify_passport.
DemoStart ==
    /\ cpc = "idle"
    /\ cpc' = "demo_calling"
    /\ UNCHANGED << lcurrent, lrequired, lresult, rmax, rattempt, rresponses,
                    rsleeps, rresult, dpassport, dstatus, dreport >>

\* verify_passport comes back: the examples run only on a 200.
DemoPassportReturns(status_code, passport) ==
    /\ cpc = "demo_calling"
    /\ dstatus' = status_code
    /\ IF status_code = 200
       THEN /\ dpassport' = passport
            /\ dreport' = demo_report(passport)
       ELSE UNCHANGED << dpassport, dreport >>
    /\ cpc' = "demo_done"
    /\ UNCHANGED << lcurrent, lrequired, lresult, rmax, rattempt, rresponses,
                    rsleeps, rresult >>

\* ------------------------------------------------------------------------
\* Specifications
\* ------------------------------------------------------------------------
vars == << authVars, apcVars, mwVars, mcpVars, cliVars >>

Init == AuthInit /\ ApcInit /\ MwInit /\ McpInit /\ CliInit

\* Concurrent callers of the wrapped tool and of the blocking client.
AuthNext ==
    \/ \E c \in Callers, amount \in Amounts, key \in IdempotencyKeys :
            WrapperCall(c, amount, key) /\ UNCHANGED << mwVars, mcpVars, cliVars >>
    \/ \E c \in Callers, out \in ClientOutcomes :
            VerifyReturns(c, out) /\ UNCHANGED << mwVars, mcpVars, cliVars >>
    \/ \E c \in Callers, out \in FuncOutcomes :
            FuncFinishes(c, out) /\ UNCHANGED << mwVars, mcpVars, cliVars >>
    \/ \E c \in Callers, amount \in Amounts, key \in ApcKeys,
          response \in ApcResponses :
            ApcVerifyPolicy(c, amount, key, response)
                /\ UNCHANGED << mwVars, mcpVars, cliVars >>

SpecAuth == Init /\ [][AuthNext]_vars

\* One guarded run: a middleware invocation or an endpoint request.  The
\* two share no state, so a behaviour follows one of them from start to end.
GuardNext ==
    \/ /\ mpc = "idle" /\ epc = "idle" /\ ~eprev.taken
       /\ \E kind \in MiddlewareKinds, metadata \in Metadatas,
             function_name \in FunctionNames,
             policy_mapping \in {None, "mapped.policy.v1"},
             streaming \in BOOLEAN, framework \in BOOLEAN,
             prior \in PriorDecisions :
               /\ kind \in AgentKinds =>
                     function_name = "unknown" /\ metadata.policy_function = None
               /\ kind # "AportFunctionMiddleware" => policy_mapping = None
               /\ MwStart(kind, metadata, function_name, policy_mapping,
                          streaming, framework, prior)
       /\ UNCHANGED << authVars, apcVars, mcpVars, cliVars >>
    \/ /\ mpc = "verify"
       /\ \E out \in ClientOutcomes : MwVerifyReturns(out)
       /\ UNCHANGED << authVars, apcVars, mcpVars, cliVars >>
    \/ /\ mpc = "passport"
       /\ \E out \in PassportOutcomes : MwPassportReturns(out)
       /\ UNCHANGED << authVars, apcVars, mcpVars, cliVars >>
    \/ /\ mpc = "next"
       /\ \E out \in NextOutcomes : MwNextReturns(out)
       /\ UNCHANGED << authVars, apcVars, mcpVars, cliVars >>
    \/ MwClose /\ UNCHANGED << authVars, apcVars, mcpVars, cliVars >>
    \/ MwSameContextForClass
            /\ UNCHANGED << authVars, apcVars, mcpVars, cliVars >>
    \/ /\ mpc = "idle" /\ epc = "idle" /\ ~mprev.taken
       /\ \E endpoint \in Endpoints, agent \in AgentHeaders,
             headers \in RequestHeaders, body \in Bodies :
               EpRequest(endpoint, agent, headers, body)
       /\ UNCHANGED << authVars, apcVars, mwVars, cliVars >>
    \/ /\ epc = "mcp_passport"
       /\ \E out \in McpPassports \cup EndpointErrors : EpPassportReturns(out)
       /\ UNCHANGED << authVars, apcVars, mwVars, cliVars >>
    \/ /\ epc = "verify"
       /\ \E out \in EndpointVerifyOutcomes : EpVerifyReturns(out)
       /\ UNCHANGED << authVars, apcVars, mwVars, cliVars >>
    \/ EpNextRefund /\ UNCHANGED << authVars, apcVars, mwVars, cliVars >>

SpecGuard == Init /\ [][GuardNext]_vars

\* One run of the client script: a comparison, a verify_with_retry or a
\* demonstration.
ClientNext ==
    \/ /\ cpc = "idle"
       /\ \E current \in TierNames, required \in TierNames :
               CompareLevels(current, required)
       /\ UNCHANGED << authVars, apcVars, mwVars, mcpVars >>
    \/ /\ cpc = "idle"
       /\ \E max_retries \in 0..MaxRetries : RetryStart(max_retries)
       /\ UNCHANGED << authVars, apcVars, mwVars, mcpVars >>
    \/ /\ cpc = "retry_calling"
       /\ \E response \in HttpResponses : RetryAttemptReturns(response)
       /\ UNCHANGED << authVars, apcVars, mwVars, mcpVars >>
    \/ DemoStart /\ UNCHANGED << authVars, apcVars, mwVars, mcpVars >>
    \/ /\ cpc = "demo_calling"
       /\ \E status_code \in {200, 404}, passport \in DemoPassports :
               DemoPassportReturns(status_code, passport)
       /\ UNCHANGED << authVars, apcVars, mwVars, mcpVars >>

SpecClient == Init /\ [][ClientNext]_vars

\* ------------------------------------------------------------------------
\* Claims about the wrapper and the clients (SpecAuth)
\* ------------------------------------------------------------------------

\* The invocations that went through with_pre_action_authorization.
WrapperStates == {"verifying", "executing", "returned", "raised"}
Invoked(c) == wpc[c] \in WrapperStates
Answered(c) == Invoked(c) /\ wclient[c].kind # "none"

\* The verify_policy calls of invocation c that carry key k for amount a.
SentWith(c, k, a) ==
    Cardinality({i \in 1..Len(wsent[c]) :
                    /\ wsent[c][i].idempotency_key = k
                    /\ wsent[c][i].context = build_context(a)})

RemoteCallsWith(k, a) ==
    SumOver(Callers, [c \in Callers |-> SentWith(c, k, a)])

InvocationsWith(k, a) ==
    {c \in Callers : Invoked(c) /\ wargs[c].idempotency_key = k
                                /\ wargs[c].amount = a}

\* C1: in every invocation of a wrapped function the function is started
\* only if client.verify_policy came back with allow = true in that
\* invocation, and when verify raised (AuthorizationError on a deny, or any
\* client error) the function was started zero times.
C1_FailClosed ==
    \A c \in Callers :
        /\ wfuncCalls[c] > 0 =>
              wclient[c].kind = "decision" /\ wclient[c].allow
        /\ wverified[c].kind = "raise" => wfuncCalls[c] = 0

\* C1 witness: one invocation was denied, another hit a client error, both
\* without the function having run.
C1_Witness ==
    \E c1, c2 \in Callers :
        /\ wpc[c1] = "raised" /\ wclient[c1].kind = "decision"
        /\ ~wclient[c1].allow /\ wfuncCalls[c1] = 0
        /\ wpc[c2] = "raised" /\ wclient[c2].type = "AportError"
        /\ wfuncCalls[c2] = 0

\* C6 as stated: a second verify with the same key and inputs as an
\* answered one makes no remote call, and all decisions given for one key
\* and the same inputs are identical in decision_id and allow.
C6_IdenticalDecisions ==
    \A c1, c2 \in Callers :
        (/\ Answered(c1) /\ Answered(c2)
         /\ wclient[c1].kind = "decision" /\ wclient[c2].kind = "decision"
         /\ Truthy(wargs[c1].idempotency_key)
         /\ wargs[c1] = wargs[c2])
        => /\ wclient[c1].decision_id = wclient[c2].decision_id
           /\ wclient[c1].allow = wclient[c2].allow

C6_SecondCallNoRemote ==
    \A c1, c2 \in Callers :
        (/\ wclient[c1].kind = "decision" /\ Invoked(c1)
         /\ wpc[c2] = "idle" /\ wpc'[c2] = "verifying"
         /\ Truthy(wargs'[c2].idempotency_key)
         /\ wargs'[c2] = wargs[c1])
        => wsent'[c2] = << >>

C8_NoKeyNoDedup ==
    \A c \in Callers :
        /\ Invoked(c) /\ wargs[c].idempotency_key = None =>
              /\ Len(wsent[c]) = 1
              /\ wsent[c][1].idempotency_key = None
        /\ wpc[c] = "apc_returned" /\ ~Truthy(wargs[c].idempotency_key) =>
              /\ Len(apcSent[c]) = 1
              /\ "idempotency_key" \notin DOMAIN apcSent[c][1]

\* C8 witness: two keyless wrapper invocations with the same inputs, two
\* remote calls; or a keyless blocking call whose body went out.
C8_Witness ==
    \E c1, c2 \in Callers :
        /\ c1 # c2
        /\ \/ /\ Invoked(c1) /\ Invoked(c2) /\ wargs[c1] = wargs[c2]
              /\ wargs[c1].idempotency_key = None
              /\ RemoteCallsWith(None, wargs[c1].amount) = 2
           \/ /\ Invoked(c1) /\ wargs[c1].idempotency_key = None
              /\ wpc[c2] = "apc_returned" /\ wargs[c2].idempotency_key = None
              /\ DOMAIN apcSent[c2][1] = {"agent_id", "policy_id", "context"}

\* ------------------------------------------------------------------------
\* Claims about the middlewares and the endpoints (SpecGuard)
\* ------------------------------------------------------------------------
Called(trace, what) == \E i \in 1..Len(trace) : trace[i] = what

\* C2: in aport_agent_middleware with a policy_id, next(context) is invoked
\* only if verify_policy came back with allow = true; on a deny or an
\* AportError next is never invoked and context.terminate is True when the
\* middleware returns.
C2_AgentPolicyGate ==
    (mkind = "aport_agent_middleware" /\ Truthy(mmeta.policy_id)) =>
        /\ Called(mtrace, "next") => mclient.kind = "decision" /\ mclient.allow
        /\ ((mclient.kind = "decision" /\ ~mclient.allow)
                \/ mclient.type = "AportError") =>
              /\ ~Called(mtrace, "next")
              /\ mpc = "done" => mterminate

\* C2 witness: the middleware has returned after a deny, terminated and
\* without next.
C2_Witness ==
    /\ mkind = "aport_agent_middleware" /\ Truthy(mmeta.policy_id)
    /\ mpc = "done" /\ mclient.kind = "decision" /\ ~mclient.allow
    /\ mterminate /\ mtrace = << "verify_policy", "close" >>

\* C3 as stated: in the function middlewares next(context) is invoked only
\* after verify_policy came back with allow = true in that invocation.
C3_Original ==
    mkind \in FunctionKinds =>
        (Called(mtrace, "next") => mclient.kind = "decision" /\ mclient.allow)

\* C4: without an agent identity (no agent_id and no agent_passport_id in
\* the metadata, no X-Agent-Passport-Id header) no verify_policy and no
\* get_passport_view call is made, next / the handler body does not run,
\* and the outcome is terminate = True (middleware) or a 401 (endpoint).
C4_MissingIdentityFailsClosed ==
    /\ (mkind \in MiddlewareKinds /\ ~Truthy(mmeta.agent_id)
                                  /\ ~Truthy(mmeta.agent_passport_id)) =>
          /\ ~Called(mtrace, "verify_policy")
          /\ ~Called(mtrace, "get_passport_view")
          /\ ~Called(mtrace, "next")
          /\ mterminate
    /\ (eendpoint \in Endpoints /\ ~Truthy(eagent)) =>
          /\ ecalls = << >>
          /\ epc = "done"
          /\ eresponse.status = 401

\* C4 witness: a function middleware has returned for a context whose
\* agent_id is empty and whose agent_passport_id is absent.
C4_Witness ==
    /\ mkind = "aport_function_middleware" /\ mpc = "done"
    /\ mmeta.agent_id = "" /\ mmeta.agent_passport_id = None
    /\ mterminate /\ mresult = "missing_agent_id" /\ mtrace = << "close" >>

\* C5: create_refund and export_csv answer with success only if
\* verify_policy came back with allow = true for that request; passing the
\* local MCP validation does not by itself lead to the action.
C5_SuccessNeedsRemoteAllow ==
    (eendpoint \in {"create_refund", "export_csv"} /\ eresponse.status = 200) =>
        /\ Called(ecalls, "verify_policy")
        /\ everify.kind = "decision" /\ everify.allow

\* C5 witness: the MCP validation passed and the remote denied: a 403.
C5_Witness ==
    /\ eendpoint = "create_refund" /\ epc = "done"
    /\ epassport.kind = "passport" /\ evalidation = McpPassed
    /\ emcp.servers # << >>
    /\ everify.kind = "decision" /\ ~everify.allow
    /\ eresponse.status = 403 /\ eresponse.error = "policy_violation"

\* The requested entries outside the allowlists of the fetched passport.
SomeUnauthorized ==
    \/ \E i \in 1..Len(emcp.servers) :
            emcp.servers[i] \notin (IF epassport.has_mcp THEN epassport.servers ELSE {})
    \/ \E i \in 1..Len(emcp.tools) :
            emcp.tools[i] \notin (IF epassport.has_mcp THEN epassport.tools ELSE {})

\* C9: validate_mcp_against_passport denies with a 403 whenever at least
\* one requested server or tool is outside the passport's allowlist, even
\* if every other entry is allowlisted, and returns True only when every
\* requested server and tool is allowlisted.
C9_ConjunctiveMcp ==
    epassport.kind = "passport" =>
        /\ SomeUnauthorized =>
              /\ evalidation.status = 403
              /\ eresponse.status = 403 /\ epc = "done"
        /\ ~SomeUnauthorized => evalidation = McpPassed

\* C9 witness: allowlist servers [A], tools [X]; request servers [A, B],
\* tools [X]; denied.
C9_Witness ==
    /\ epassport.kind = "passport" /\ epassport.has_mcp
    /\ epassport.servers = {<< "A" >>} /\ epassport.tools = {<< "X" >>}
    /\ emcp.servers = << << "A" >>, << "B" >> >> /\ emcp.tools = << << "X" >> >>
    /\ eresponse.status = 403 /\ eresponse.error = "mcp_server_not_allowed"

\* C10 as stated: a failed validation carries both the unauthorized servers
\* and the unauthorized tools.
C10_Original ==
    (epassport.kind = "passport" /\ evalidation.status = 403) =>
        /\ evalidation.unauthorized_servers =
              NotIn(emcp.servers, allowed_servers(epassport))
        /\ evalidation.unauthorized_tools =
              NotIn(emcp.tools, allowed_tools(epassport))

\* C10 amended: a failed validation carries one list.  If any requested
\* server is unauthorized it is mcp_server_not_allowed with all the
\* unauthorized servers in request order and nothing about the tools;
\* otherwise it is mcp_tool_not_allowed with all the unauthorized tools.
C10_ServersThenTools ==
    (epassport.kind = "passport" /\ evalidation.status = 403) =>
        IF NotIn(emcp.servers, allowed_servers(epassport)) # << >>
        THEN /\ evalidation.error = "mcp_server_not_allowed"
             /\ evalidation.unauthorized_servers =
                   NotIn(emcp.servers, allowed_servers(epassport))
             /\ evalidation.unauthorized_tools = << >>
        ELSE /\ evalidation.error = "mcp_tool_not_allowed"
             /\ evalidation.unauthorized_servers = << >>
             /\ evalidation.unauthorized_tools =
                   NotIn(emcp.tools, allowed_tools(epassport))
                /\ evalidation.unauthorized_tools # << >>

\* C10 witness: a request with an unauthorized server and an unauthorized
\* tool is denied for the server alone.
C10_Witness ==
    /\ epassport.kind = "passport"
    /\ NotIn(emcp.servers, allowed_servers(epassport)) = << << "C" >> >>
    /\ NotIn(emcp.tools, allowed_tools(epassport)) = << << "Y" >> >>
    /\ evalidation.error = "mcp_server_not_allowed"
    /\ evalidation.unauthorized_tools = << >>
    /\ eresponse.status = 403

\* The request names no MCP server and no MCP tool: none of the four
\* server and tool headers is set.
NamesNoMcp(headers) ==
    /\ headers.servers = NoHeader /\ headers.server = NoHeader
    /\ headers.tools = NoHeader /\ headers.tool = NoHeader

McpFields == {"mcp_servers", "mcp_tools", "mcp_server", "mcp_tool",
              "mcp_session"}

\* An identified request has got past the 401 and the MCP block.
Identified == epc # "idle" /\ ~agent_header_missing(eagent)

\* C11 as stated: a request that names no MCP server and no MCP tool
\* makes no passport fetch for MCP, gets no MCP denial, and no mcp_* field
\* at all is added to the policy context.
C11_Original ==
    (Identified /\ NamesNoMcp(eheaders)) =>
        /\ ~Called(ecalls, "get_passport_view")
        /\ eresponse.error \notin {"mcp_server_not_allowed",
                                   "mcp_tool_not_allowed"}
        /\ DOMAIN econtext \cap McpFields = {}

\* C11 amended: such a request makes no passport fetch, gets no MCP
\* denial and adds none of mcp_servers, mcp_tools, mcp_server, mcp_tool to
\* the policy context; mcp_session is added exactly when X-MCP-Session is
\* set.
C11_NoMcpTrivialPass ==
    (Identified /\ NamesNoMcp(eheaders)) =>
        /\ ~Called(ecalls, "get_passport_view")
        /\ evalidation = McpPassed
        /\ eresponse.error \notin {"mcp_server_not_allowed",
                                   "mcp_tool_not_allowed"}
        /\ eendpoint # "basic_mcp_endpoint" =>
              /\ Called(ecalls, "verify_policy")
              /\ DOMAIN econtext \cap (McpFields \ {"mcp_session"}) = {}
              /\ ("mcp_session" \in DOMAIN econtext)
                    <=> (eheaders.session # NoHeader)

C11_Witness ==
    /\ Identified /\ NamesNoMcp(eheaders)
    /\ eendpoint = "create_refund"
    /\ eheaders.session # NoHeader
    /\ eresponse.status = 200

\* The request as it would be with the single-value headers' values sent in
\* the multi-value headers instead.
AsPluralForm(headers) ==
    [headers EXCEPT !.servers = headers.server, !.server = NoHeader,
                    !.tools = headers.tool, !.tool = NoHeader]

HasComma(header) == \E i \in 1..Len(header) : header[i] = ","
Commas(header) == Cardinality({i \in 1..Len(header) : header[i] = ","})
Trimmed(part) ==
    part = << >> \/ (Head(part) # " " /\ part[Len(part)] # " ")

\* What a comma-joined header must come out as: one part per comma plus
\* one, each part trimmed and free of commas.
IsTrimmedParts(list, header) ==
    /\ Len(list) = Commas(header) + 1
    /\ \A i \in 1..Len(list) : Trimmed(list[i]) /\ ~HasComma(list[i])
    /\ header = << "A", ",", "B" >> => list = << << "A" >>, << "B" >> >>
    /\ header = << "A", ",", " ", "C" >> => list = << << "A" >>, << "C" >> >>
    /\ header = << "X", ",", "Y" >> => list = << << "X" >>, << "Y" >> >>

\* C12: a single value v in X-MCP-Server (X-MCP-Tool) yields the list [v],
\* the same list X-MCP-Servers (X-MCP-Tools) with the value v yields, so
\* validation comes out the same for both header forms against every
\* passport; a comma-joined value yields its trimmed parts in order.
C12_HeaderFormsNormalised ==
    Identified =>
        /\ (eheaders.servers = NoHeader /\ eheaders.server # NoHeader
                /\ ~HasComma(eheaders.server)) =>
              emcp.servers = << eheaders.server >>
        /\ (eheaders.tools = NoHeader /\ eheaders.tool # NoHeader
                /\ ~HasComma(eheaders.tool)) =>
              emcp.tools = << eheaders.tool >>
        /\ (eheaders.servers = NoHeader /\ eheaders.tools = NoHeader) =>
              /\ extract_mcp_headers(AsPluralForm(eheaders)) = emcp
              /\ \A passport \in McpPassports :
                    validate_mcp_against_passport(passport,
                        extract_mcp_headers(AsPluralForm(eheaders)))
                    = validate_mcp_against_passport(passport, emcp)
        /\ HasComma(eheaders.servers) =>
              IsTrimmedParts(emcp.servers, eheaders.servers)
        /\ HasComma(eheaders.tools) =>
              IsTrimmedParts(emcp.tools, eheaders.tools)

C12_Witness ==
    /\ Identified
    /\ eheaders.servers = NoHeader
    /\ eheaders.server = << " ", "A" >>
    /\ emcp.servers = << << " ", "A" >> >>
    /\ HasComma(eheaders.tools)
    /\ emcp.tools = << << "X" >>, << "Y" >> >>
    /\ evalidation.error = "mcp_server_not_allowed"

\* A request to create_refund or export_csv whose MCP entries were looked
\* up and found to hold one that is not allowlisted.
GuardedMcpDenial ==
    /\ eendpoint \in {"create_refund", "export_csv"}
    /\ epassport.kind = "passport"
    /\ SomeUnauthorized

BaseRank == [t \in {"L0", "L1", "L2", "L3"} |->
                CASE t = "L0" -> 0 [] t = "L1" -> 1 [] t = "L2" -> 2
                  [] t = "L3" -> 3]
TopTiers == {"L4KYC", "L4FIN"}
KnownTiers == DOMAIN BaseRank \cup TopTiers

\* C14: for tiers of L0 < L1 < L2 < L3, _compare_assurance_levels returns
\* True exactly when current is at or above required (so L2 against L3 is
\* False and L3 against L2 is True), and it returns False whenever either
\* tier name is unknown.
C14_AssuranceOrdering ==
    cpc = "compared" =>
        /\ (lcurrent \in DOMAIN BaseRank /\ lrequired \in DOMAIN BaseRank) =>
              (lresult <=> BaseRank[lcurrent] >= BaseRank[lrequired])
        /\ (lcurrent \notin KnownTiers \/ lrequired \notin KnownTiers) =>
              ~lresult
        /\ (lcurrent = "L2" /\ lrequired = "L3") => ~lresult
        /\ (lcurrent = "L3" /\ lrequired = "L2") => lresult

C14_Witness ==
    /\ cpc = "compared"
    /\ lcurrent = "L1" /\ lrequired = "L5"
    /\ ~lresult

\* C15 as stated: neither top tier satisfies a requirement for the other,
\* and each satisfies a requirement of L3.
C15_Original ==
    cpc = "compared" =>
        /\ (lcurrent \in TopTiers /\ lrequired \in TopTiers
                /\ lcurrent # lrequired) => ~lresult
        /\ (lcurrent \in TopTiers /\ lrequired = "L3") => lresult

\* C15 amended: the top tiers are ordered, L4KYC below L4FIN: L4FIN
\* satisfies a requirement of L4KYC, L4KYC does not satisfy one of L4FIN,
\* each satisfies a requirement of L3 and no tier of L0..L3 satisfies a
\* requirement of a top tier.
C15_TopTiersOrdered ==
    cpc = "compared" =>
        /\ (lcurrent = "L4FIN" /\ lrequired = "L4KYC") => lresult
        /\ (lcurrent = "L4KYC" /\ lrequired = "L4FIN") => ~lresult
        /\ (lcurrent \in TopTiers /\ lrequired \in DOMAIN BaseRank) => lresult
        /\ (lcurrent \in DOMAIN BaseRank /\ lrequired \in TopTiers) => ~lresult

C15_Witness ==
    /\ cpc = "compared"
    /\ lcurrent = "L4FIN" /\ lrequired = "L4KYC"
    /\ lresult

\* verify_with_retry has been called and rresponses holds the answers of
\* its verify_passport calls so far.
Retrying == cpc \in {"retry_calling", "retry_done"}
Last(seq) == seq[Len(seq)]
Succeeded(response) == response.status_code = 200

\* C16: verify_with_retry makes at most max_retries calls of
\* verify_passport; it returns the data of the first attempt that answers
\* 200 and makes no attempt after it; when every attempt fails it has made
\* exactly max_retries attempts and returns None.
C16_BoundedAttempts ==
    Retrying =>
        /\ Len(rresponses) <= rmax
        /\ \A i \in 1..(Len(rresponses) - 1) : ~Succeeded(rresponses[i])
        /\ cpc = "retry_calling" =>
              /\ Len(rresponses) < rmax
              /\ rattempt = Len(rresponses) + 1
              /\ \A i \in 1..Len(rresponses) : ~Succeeded(rresponses[i])
        /\ cpc = "retry_done" =>
              IF rresponses # << >> /\ Succeeded(Last(rresponses))
              THEN rresult = Last(rresponses)
              ELSE rresult = ReturnedNone /\ Len(rresponses) = rmax

C16_Witness ==
    /\ cpc = "retry_done"
    /\ rmax = MaxRetries
    /\ Len(rresponses) = rmax
    /\ \A i \in 1..rmax : ~Succeeded(rresponses[i])
    /\ rresult = ReturnedNone

Definitive(response) == response.status_code \in {400, 403, 404}

C18_Original ==
    Retrying =>
        /\ rresult.data # "text"
        /\ \A i \in 1..Len(rresponses) :
              rresponses[i].data = "text" =>
                  (i = Len(rresponses) /\ cpc = "retry_done")

\* The demonstration got a passport and ran its enforcement examples.
Demonstrated == cpc = "demo_done" /\ dstatus = 200

\* C19: with the refund capability and a numeric refund_amount_max_per_tx
\* on the passport, 0 included, the check passes iff the requested amount
\* is at most the limit and fails iff it is above it; the same for
\* max_export_rows.
C19_Original ==
    Demonstrated =>
        /\ (has_capability(dpassport, "finance.payment.refund")
                /\ dpassport.refund_amount_max_per_tx.present) =>
              dreport.refund =
                  IF refund_amount <= dpassport.refund_amount_max_per_tx.value
                  THEN "within_limit" ELSE "exceeds_limit"
        /\ (has_capability(dpassport, "data.export")
                /\ dpassport.max_export_rows.present) =>
              dreport.export =
                  IF requested_rows <= dpassport.max_export_rows.value
                  THEN "within_limit" ELSE "exceeds_limit"

\* C20 as stated: with the capability granted and no entry for the limit
\* on the passport, the limit check reports a failure.
C20_Original ==
    Demonstrated =>
        /\ (has_capability(dpassport, "finance.payment.refund")
                /\ ~dpassport.refund_amount_max_per_tx.present) =>
              dreport.refund = "exceeds_limit"
        /\ (has_capability(dpassport, "data.export")
                /\ ~dpassport.max_export_rows.present) =>
              dreport.export = "exceeds_limit"

\* C20 amended: with the capability granted and no entry for the limit on
\* the passport, the limit check is skipped: neither a pass nor a failure
\* is reported for that limit.
C20_AbsentLimitSkipped ==
    Demonstrated =>
        /\ (has_capability(dpassport, "finance.payment.refund")
                /\ ~dpassport.refund_amount_max_per_tx.present) =>
              dreport.refund = "not_checked"
        /\ (has_capability(dpassport, "data.export")
                /\ ~dpassport.max_export_rows.present) =>
              dreport.export = "not_checked"

C20_Witness ==
    /\ Demonstrated
    /\ has_capability(dpassport, "finance.payment.refund")
    /\ has_capability(dpassport, "data.export")
    /\ ~dpassport.refund_amount_max_per_tx.present
    /\ dpassport.max_export_rows = Limit(TRUE, requested_rows)
    /\ dreport.refund = "not_checked"
    /\ dreport.export = "within_limit"

\* C21: the capability lookup returns the first entry with the id in list
\* order, also when several entries share the id; it returns None when no
\* entry has the id; the has-capability test is true iff the lookup finds
\* an entry; and the messaging example shows the entry found.
C21_FirstOccurrenceWins ==
    Demonstrated =>
        /\ \A id \in CapabilityIds :
              LET caps == dpassport.capabilities
                  found == find_capability(caps, id)
              IN  /\ has_capability(dpassport, id) <=> (found # NoCapability)
                  /\ (\A i \in 1..Len(caps) : caps[i].id # id) =>
                        found = NoCapability
                  /\ \A i \in 1..Len(caps) :
                        (caps[i].id = id
                            /\ \A j \in 1..(i - 1) : caps[j].id # id) =>
                                found = caps[i]
        /\ dreport.messaging.has <=> has_capability(dpassport, "messaging.send")
        /\ \A i \in 1..Len(dpassport.capabilities) :
              (dpassport.capabilities[i].id = "messaging.send"
                  /\ \A j \in 1..(i - 1) :
                        dpassport.capabilities[j].id # "messaging.send") =>
                    dreport.messaging.channels
                        = dpassport.capabilities[i].channels

C21_Witness ==
    /\ Demonstrated
    /\ dpassport.capabilities = << Capability("messaging.send", "c1"),
                                   Capability("messaging.send", "c2") >>
    /\ dreport.messaging = [has |-> TRUE, channels |-> "c1"]

\* ------------------------------------------------------------------------
\* Further claims about the middlewares and endpoints (SpecGuard)
\* ------------------------------------------------------------------------

\* C22: AportAgentMiddleware.process, given the context that
\* aport_agent_middleware was given and the same answer of the remote call
\* where it makes one, leaves the same value in context.terminate and
\* agrees on whether next(context) was invoked.
C22_Original ==
    (mpc = "done" /\ mprev.taken /\ mkind = "AportAgentMiddleware"
        /\ (mclient = NoOutcome \/ mclient = mprev.client)) =>
            /\ mterminate = mprev.terminate
            /\ Called(mtrace, "next") = mprev.next_called

\* ------------------------------------------------------------------------
\* Further claims about the wrapper (SpecAuth)
\* ------------------------------------------------------------------------

\* C23: an exception raised by client.verify_policy leaves the wrapper
\* unchanged, and a deny leaves it as an AuthorizationError that carries the
\* decision the remote call returned; neither is swallowed.
C23_ErrorsPropagate ==
    \A c \in Callers :
        Answered(c) =>
            /\ wclient[c].kind = "raise" =>
                  /\ wpc[c] = "raised"
                  /\ wresult[c] = wclient[c]
                  /\ wfuncCalls[c] = 0
            /\ (wclient[c].kind = "decision" /\ ~wclient[c].allow) =>
                  /\ wpc[c] = "raised"
                  /\ wresult[c].kind = "raise"
                  /\ wresult[c].type = "AuthorizationError"
                  /\ wresult[c].decision_id = wclient[c].decision_id
                  /\ wresult[c].allow = wclient[c].allow

C23_Witness ==
    \E c, d \in Callers :
        /\ c # d
        /\ wpc[c] = "raised" /\ wclient[c] = RaisedOutcome("TimeoutError")
        /\ wresult[c] = RaisedOutcome("TimeoutError")
        /\ wpc[d] = "raised" /\ wclient[d] = DecisionOutcome("dec_2", FALSE)
        /\ wresult[d].type = "AuthorizationError"

\* C30: whenever the wrapper raises AuthorizationError, its own verify call
\* returned allow = false and the wrapped function was not executed.
C30_Original ==
    \A c \in Callers :
        (wpc[c] = "raised" /\ wresult[c].type = "AuthorizationError") =>
            /\ wclient[c].kind = "decision" /\ ~wclient[c].allow
            /\ wfuncCalls[c] = 0

Position(trace, what) ==
    CHOOSE i \in 1..Len(trace) : trace[i] = what
Count(trace, what) == Cardinality({i \in 1..Len(trace) : trace[i] = what})

FunctionBased == {"aport_agent_middleware", "aport_function_middleware"}

\* C27: without a policy_id, aport_agent_middleware lets next(context) run
\* only if get_passport_view returned without error and the passport it
\* returned is active.
C27_Original ==
    (mkind = "aport_agent_middleware" /\ ~Truthy(mmeta.policy_id)
        /\ Called(mtrace, "next")) =>
            /\ mclient.kind = "passport"
            /\ mclient.type = "active"

\* C28: aport_agent_middleware writes metadata['aport_decision'] exactly
\* when verify_policy returned a decision, allow or deny, with that
\* decision's decision_id and allow; on every other path, the missing
\* agent id and the AportError among them, it is what it was at entry.
C28_DecisionMetadata ==
    (mkind = "aport_agent_middleware" /\ mpc # "idle") =>
        IF Called(mtrace, "verify_policy") /\ mclient.kind = "decision"
        THEN /\ maport.decision_id = mclient.decision_id
             /\ maport.allow = mclient.allow
        ELSE maport = mprior

C28_Witness ==
    /\ mkind = "aport_agent_middleware" /\ mpc = "done"
    /\ mprior.decision_id = "dec_old"
    /\ mclient = DecisionOutcome("dec_2", FALSE)
    /\ maport = [decision_id |-> "dec_2", allow |-> FALSE]

\* C29: on every exit path of aport_agent_middleware and
\* aport_function_middleware client.close() is called exactly once, after
\* any verify_policy and next(context) call: nothing is closed before the
\* run ends, and a run that is over has closed once, as its last call.
C29_ClosedOnceAtExit ==
    mkind \in FunctionBased =>
        /\ mpc \notin {"idle", "done"} => ~Called(mtrace, "close")
        /\ mpc = "done" =>
              /\ Count(mtrace, "close") = 1
              /\ mtrace[Len(mtrace)] = "close"

C29_Witness ==
    /\ mkind = "aport_function_middleware" /\ mpc = "done"
    /\ mclient = RaisedOutcome("AportError")
    /\ mterminate
    /\ mtrace = << "verify_policy", "close" >>

\* C26: the idempotency key create_refund sends identifies one logical
\* action: two refund requests for different orders never carry the same
\* idempotency_key in the verification context unless the caller supplied
\* the same idempotency_key, or the same X-Request-ID, for both.
C26_Original ==
    (eprev.taken /\ eendpoint = "create_refund"
        /\ Called(ecalls, "verify_policy")
        /\ ebody.order_id # eprev.order_id
        /\ econtext.idempotency_key = eprev.idempotency_key) =>
            \/ /\ Truthy(ebody.idempotency_key)
               /\ ebody.idempotency_key = eprev.supplied_key
            \/ /\ eheaders.request_id # None
               /\ eheaders.request_id = eprev.request_id

(***************************************************************************)
(* Further claims about the client of basic_usage.py (SpecClient)          *)
(***************************************************************************)

RateLimited(response) ==
    response.status_code = 429 /\ response.data = "dict"
        /\ response.retryAfter # -1

\* C25: verify_with_retry backs off exponentially: after a failed attempt
\* k < max_retries it sleeps 2^k seconds, except that after a 429 whose
\* body carries retryAfter it sleeps retryAfter seconds; there is one sleep
\* per failed attempt before the last and none after the final attempt.
C25_ExponentialBackoff ==
    Retrying =>
        /\ \A k \in 1..Len(rsleeps) : k < rmax
        /\ Len(rsleeps) =
              Cardinality({k \in 1..Len(rresponses) :
                              k < rmax /\ ~Succeeded(rresponses[k])})
        /\ \A k \in 1..Len(rsleeps) :
              /\ ~Succeeded(rresponses[k])
              /\ rsleeps[k] = IF RateLimited(rresponses[k])
                              THEN rresponses[k].retryAfter ELSE Pow2(k)

C25_Witness ==
    /\ cpc = "retry_done" /\ rmax = 3
    /\ Len(rresponses) = 3
    /\ rresponses[1] = HttpResponse(429, "dict", 1)
    /\ rresponses[2].status_code = 429 /\ rresponses[2].retryAfter = -1
    /\ rresponses[3].status_code = 500
    /\ rsleeps = << 1, 4 >>


=============================================================================
